---- MODULE Spec2Model ----
(***************************************************************************)
(* A model of janggo's CoverageDataset (src/src/janggo/data/coverage.py): *)
(*   - the read path: __getitem__, __len__, shape and the flank setter,    *)
(*     with one or several readers sharing the store (Spec, SpecShared);   *)
(*   - the alignment-count loader bam_loader (SpecBam);                    *)
(*   - the signal-sum loader bigwig_loader (SpecBigwig).                   *)
(* The genomic array (janggo.data.genomicarray), the region indexer       *)
(* (janggo.data.genomic_indexer) and HTSeq's GenomicInterval are not part  *)
(* of the source file; their read/write/indexing contracts are taken from  *)
(* the specification's sections 3 and 4.                                    *)
(***************************************************************************)
EXTENDS Integers, Sequences, FiniteSets, TLC

VARIABLES
    constructed,  \* whether CoverageDataset.__init__ has completed
    flank,        \* CoverageDataset._flank, a Python value [kind, v]
    stranded,     \* CoverageDataset.stranded
    covers,       \* CoverageDataset.covers: the genomic array
    gindexer,     \* CoverageDataset.gindexer: [binsize, ivs]
    oobPolicy,    \* what the storage backend does with an out-of-range read
    setter,       \* the last assignment to flank: [arg, exc]
    rd,           \* per reader: the frame of its current call
    ld            \* the frame of the running loader (bam_loader / bigwig_loader)

vars == <<constructed, flank, stranded, covers, gindexer, oobPolicy, setter, rd, ld>>

(***************************************************************************)
(* Bounds of the model.                                                    *)
(***************************************************************************)
NumRegions == 3     \* len(gindexer) of the datasets that are read
MaxBinsize == 2     \* bin sizes 1..MaxBinsize
MaxFlank == 2       \* flank values offered to the setter: -1..MaxFlank
MaxCond == 2        \* conditions (samples) of a store: 1..MaxCond
MaxListLen == 2     \* length of the lists and generators passed as index

ChromLen == NumRegions * MaxBinsize      \* length of chr1 in the read model
Readers == {"r1", "r2"}

(***************************************************************************)
(* Python values.                                                          *)
(***************************************************************************)
\* An optional integer: None is the empty set, the integer x is {x}.
None == {}
Some(x) == {x}
Val(o) == CHOOSE x \in o : TRUE
\* Python's truth value of an int-or-None (None and 0 are false).
Truthy(o) == o # None /\ Val(o) # 0

\* range(a, b, c) for a positive step c, as a sequence.
PyRange(a, b, c) ==
    LET n == IF b > a THEN (b - a + c - 1) \div c ELSE 0
    IN  [k \in 1..n |-> a + (k - 1) * c]

\* isinstance(value, int): bool is a subclass of int.
IsInstanceInt(value) == value.kind \in {"int", "bool"}

PyNone == [kind |-> "NoneType", v |-> 0]
FlankValues ==
    [kind : {"int"}, v : -1..MaxFlank]
        \cup {[kind |-> "bool", v |-> 1], [kind |-> "float", v |-> 1], PyNone}

(***************************************************************************)
(* Intervals (HTSeq.GenomicInterval) and the region indexer.               *)
(***************************************************************************)
Interval(chrom, start, end, strand) ==
    [chrom |-> chrom, start |-> start, end |-> end, strand |-> strand]

Strands == <<"+", "-", ".">>

\* GenomicIndexer.create_from_file over one region of chr1 starting at 0,
\* stepsize = binsize: interval k is [k*binsize, (k+1)*binsize).
MakeIndexer(binsize) ==
    [binsize |-> binsize,
     ivs |-> [k \in 1..NumRegions |->
                Interval("chr1", (k - 1) * binsize, k * binsize,
                         Strands[((k - 1) % 3) + 1])]]

(***************************************************************************)
(* The genomic array (coverage store).                                     *)
(***************************************************************************)
StrandDim(isStranded) == IF isStranded THEN 2 ELSE 1

\* An asymmetric pattern: every cell of the store holds a different value > 0.
Pattern(ch, s, p, c) == 1 + p + ChromLen * s + 2 * ChromLen * c

\* A store over `genome` (chromosome -> length): zero-filled at allocation
\* (fill = "zero"), or already loaded with the pattern (fill = "pattern").
MakeStore(genome, isStranded, ncond, fill) ==
    [genome |-> genome, stranded |-> isStranded, condition |-> ncond,
     arr |-> [ch \in DOMAIN genome |->
               [s \in 0..(StrandDim(isStranded) - 1) |->
                 [p \in 0..(genome[ch] - 1) |->
                   [c \in 0..(ncond - 1) |->
                     IF fill = "zero" THEN 0 ELSE Pattern(ch, s, p, c)]]]]]

InRange(st, iv) ==
    /\ iv.chrom \in DOMAIN st.genome
    /\ 0 <= iv.start
    /\ iv.end <= st.genome[iv.chrom]

\* covers[interval]: the dense window (length, strand_dim, num_conditions);
\* positions outside the chromosome read as 0 (zero padding).
StoreRead(st, iv) ==
    [p \in 0..(iv.end - iv.start - 1) |->
      [s \in 0..(StrandDim(st.stranded) - 1) |->
        [c \in 0..(st.condition - 1) |->
          IF iv.start + p \in 0..(st.genome[iv.chrom] - 1)
          THEN st.arr[iv.chrom][s][iv.start + p][c]
          ELSE 0]]]

(***************************************************************************)
(* Index arguments of __getitem__.                                         *)
(***************************************************************************)
Arg(kind, v, start, stop, step, items) ==
    [kind |-> kind, v |-> v, start |-> start, stop |-> stop, step |-> step,
     items |-> items]
NoArg == Arg("none", 0, None, None, None, <<>>)

\* Indices offered: the valid ones, 0..NumRegions-1, and NumRegions (out of range).
IdxValues == 0..NumRegions
SeqsUpTo(S, n) == UNION {[1..k -> S] : k \in 0..n}
OptStarts == {None} \cup {Some(x) : x \in 0..2}
OptStops == {None} \cup {Some(x) : x \in 0..NumRegions}
OptSteps == {None, Some(1), Some(2)}

IntArgs == {Arg("int", k, None, None, None, <<>>) : k \in IdxValues}
SliceArgs ==
    {Arg("slice", 0, a, b, c, <<>>) : a \in OptStarts, b \in OptStops, c \in OptSteps}
\* Lists hold the first region, the second (on strand '-') and the index past
\* the last region.
ListArgs ==
    {Arg("list", 0, None, None, None, q) :
       q \in SeqsUpTo({0, 1, NumRegions}, MaxListLen)}
GeneratorArgs ==
    {Arg("generator", 0, None, None, None, q) : q \in SeqsUpTo(IdxValues, 1)}
\* Neither an int, nor a slice, nor iterable.
OtherArgs == {Arg(k, 0, None, None, None, <<>>) : k \in {"float", "NoneType"}}

Args == IntArgs \cup SliceArgs \cup ListArgs \cup GeneratorArgs \cup OtherArgs
\* The arguments of the readers that share one store.
SharedArgs ==
    {Arg("list", 0, None, None, None, q) : q \in SeqsUpTo(0..(NumRegions - 1), 2)}
        \cup {Arg("slice", 0, None, None, None, <<>>)}

(***************************************************************************)
(* CoverageDataset: the read path.                                         *)
(***************************************************************************)
\* CoverageDataset.__len__
DatasetLen(g) == Len(g.ivs)

\* CoverageDataset.shape
Shape(g, fl, isStranded, st) ==
    <<DatasetLen(g), 2 * fl.v + g.binsize, IF isStranded THEN 2 ELSE 1,
      st.condition>>

\* __getitem__, lines 261-271: the index sequence of an argument, whether it
\* has a len(), whether len(self) was evaluated, and the exception raised.
Normalize(idxs, n) ==
    CASE idxs.kind = "int" ->
           [exc |-> "none", idxs |-> <<idxs.v>>, sized |-> TRUE, usedLen |-> FALSE]
      [] idxs.kind = "slice" ->
           [exc |-> "none",
            idxs |-> PyRange(IF Truthy(idxs.start) THEN Val(idxs.start) ELSE 0,
                             IF Truthy(idxs.stop) THEN Val(idxs.stop) ELSE n,
                             IF Truthy(idxs.step) THEN Val(idxs.step) ELSE 1),
            sized |-> TRUE, usedLen |-> ~Truthy(idxs.stop)]
      [] idxs.kind = "list" ->
           [exc |-> "none", idxs |-> idxs.items, sized |-> TRUE, usedLen |-> FALSE]
      [] idxs.kind = "generator" ->
           [exc |-> "none", idxs |-> idxs.items, sized |-> FALSE, usedLen |-> FALSE]
      [] OTHER ->
           [exc |-> "IndexError: index must be iterable", idxs |-> <<>>,
            sized |-> FALSE, usedLen |-> FALSE]

\* PadInterval without the copy (pinterval = interval): the indexer's own
\* interval is padded in place.
PadIntervalInPlace(g, idx, fl) ==
    LET interval == g.ivs[idx + 1]
        padded == [interval EXCEPT !.start = interval.start - fl.v,
                                   !.end = interval.end + fl.v]
    IN  [pinterval |-> padded,
         gindexer |-> [g EXCEPT !.ivs[idx + 1] = padded]]

\* PadInterval with the start clipped at the chromosome's first base.
PadIntervalClipped(g, idx, fl) ==
    LET interval == g.ivs[idx + 1]
        lo == IF interval.start - fl.v < 0 THEN 0 ELSE interval.start - fl.v
    IN  [pinterval |-> [interval EXCEPT !.start = lo,
                                        !.end = interval.end + fl.v],
         gindexer |-> g]

\* Lines 278-282: pinterval = interval.copy(), then its start and end are set.
\* The fields of the indexer's own interval are left as they are.
PadInterval(g, idx, fl) ==
    LET interval == g.ivs[idx + 1]
    IN  [pinterval |-> [interval EXCEPT !.start = interval.start - fl.v,
                                        !.end = interval.end + fl.v],
         gindexer |-> g]

\* Flip that reverses the position axis only: data[i, ::-1, :, :].
FlipPositionsOnly(row) ==
    LET L == Cardinality(DOMAIN row)
    IN  [p \in DOMAIN row |-> row[L - 1 - p]]

\* Line 289: data[i, :, :, :] = data[i, ::-1, ::-1, :]
Flip(row) ==
    LET L == Cardinality(DOMAIN row)
        S == Cardinality(DOMAIN row[0])
    IN  [p \in DOMAIN row |->
          [s \in DOMAIN row[0] |->
            [c \in DOMAIN row[0][0] |-> row[L - 1 - p][S - 1 - s][c]]]]

\* The shape of a window read from the store.
RowShape(row) ==
    <<Cardinality(DOMAIN row), Cardinality(DOMAIN row[0]),
      Cardinality(DOMAIN row[0][0])>>

Frame(pc, op, arg, idxs, shape, data, reads, exc, accessed, ret) ==
    [pc |-> pc, op |-> op, arg |-> arg, idxs |-> idxs, shape |-> shape,
     data |-> data, reads |-> reads, exc |-> exc, accessed |-> accessed,
     ret |-> ret]
IdleFrame == Frame("idle", "none", NoArg, <<>>, <<>>, <<>>, <<>>, "none", FALSE, <<>>)

\* Lines 260-273: normalise the argument and allocate the batch.
GetItemEnter(a, g, fl, isStranded, st) ==
    LET nz == Normalize(a, DatasetLen(g))
    IN  IF nz.exc # "none"
        THEN Frame("raised", "getitem", a, <<>>, <<>>, <<>>, <<>>, nz.exc,
                   nz.usedLen, <<>>)
        ELSE IF ~nz.sized
        THEN Frame("raised", "getitem", a, <<>>, <<>>, <<>>, <<>>,
                   "TypeError: object has no len()", nz.usedLen, <<>>)
        ELSE Frame("loop", "getitem", a, nz.idxs,
                   <<Len(nz.idxs)>> \o Tail(Shape(g, fl, isStranded, st)),
                   <<>>, <<>>, "none", TRUE, <<>>)

\* Lines 275-289 for the next index of the frame: the frame after it, and
\* the indexer after it.
GetItemIter(f, g, fl, st, policy) ==
    LET idx == f.idxs[Len(f.data) + 1]
    IN  IF idx \notin 0..(DatasetLen(g) - 1)
        THEN [frame |-> [f EXCEPT !.pc = "raised",
                                  !.exc = "IndexError: region index out of range"],
              gindexer |-> g]
        ELSE
        LET interval == g.ivs[idx + 1]
            pad == PadInterval(g, idx, fl)
            pinterval == pad.pinterval
            window == StoreRead(st, pinterval)
            reads == Append(f.reads, pinterval)
        IN  IF ~InRange(st, pinterval) /\ policy = "raise"
            THEN [frame |-> [f EXCEPT !.pc = "raised", !.reads = reads,
                                      !.exc = "StoreError: out of range"],
                  gindexer |-> pad.gindexer]
            ELSE IF RowShape(window) # Tail(f.shape)
            THEN [frame |-> [f EXCEPT !.pc = "raised", !.reads = reads,
                                      !.exc = "ValueError: could not broadcast"],
                  gindexer |-> pad.gindexer]
            ELSE [frame |-> [f EXCEPT !.reads = reads,
                                      !.data = Append(f.data,
                                          IF interval.strand = "-"
                                          THEN Flip(window) ELSE window)],
                  gindexer |-> pad.gindexer]

\* The setter's test with `and` for `or`.
FlankRejectedBoth(value) == ~IsInstanceInt(value) /\ value.v < 0

\* The flank setter's test, line 312.
FlankRejected(value) == ~IsInstanceInt(value) \/ value.v < 0

(***************************************************************************)
(* The read model: one dataset over a loaded store.                        *)
(***************************************************************************)
ReadGenome == [ch \in {"chr1"} |-> ChromLen]
NoLoader == [pc |-> "none"]
\* No assignment to flank has been made yet.
NoSetter == [arg |-> [kind |-> "none", v |-> 0], exc |-> "none"]
Idle == \A r \in Readers : rd[r].pc = "idle"

\* Before CoverageDataset.__init__: the class attribute _flank is None; the
\* store is loaded and the region indexer is built.
Init ==
    /\ constructed = FALSE
    /\ flank = PyNone
    /\ stranded = FALSE
    /\ covers \in {MakeStore(ReadGenome, sd, n, "pattern") :
                     sd \in BOOLEAN, n \in 1..MaxCond}
    /\ gindexer \in {MakeIndexer(b) : b \in 1..MaxBinsize}
    /\ oobPolicy \in {"pad", "raise"}
    /\ setter = NoSetter
    /\ rd = [r \in Readers |-> IdleFrame]
    /\ ld = NoLoader

\* CoverageDataset.__init__(name, covers, gindexer, flank, stranded), with
\* stranded as the factories pass it (the strandedness of the store).
Construct(value) ==
    /\ ~constructed
    /\ IF FlankRejected(value)
       THEN /\ setter' = [arg |-> value, exc |-> "Exception"]
            /\ UNCHANGED <<constructed, flank, stranded>>
       ELSE /\ setter' = [arg |-> value, exc |-> "none"]
            /\ flank' = value
            /\ stranded' = covers.stranded
            /\ constructed' = TRUE
    /\ UNCHANGED <<covers, gindexer, oobPolicy, rd, ld>>

\* dataset.flank = value, between two queries.
SetFlank(value) ==
    /\ constructed
    /\ Idle
    /\ IF FlankRejected(value)
       THEN /\ setter' = [arg |-> value, exc |-> "Exception"]
            /\ UNCHANGED flank
       ELSE /\ setter' = [arg |-> value, exc |-> "none"]
            /\ flank' = value
    /\ UNCHANGED <<constructed, stranded, covers, gindexer, oobPolicy, rd, ld>>

\* dataset[a]: entry, up to the allocation of the batch.
GetItem(r, a) ==
    /\ constructed
    /\ rd[r].pc = "idle"
    /\ rd' = [rd EXCEPT ![r] = GetItemEnter(a, gindexer, flank, stranded, covers)]
    /\ UNCHANGED <<constructed, flank, stranded, covers, gindexer, oobPolicy,
                   setter, ld>>

\* One iteration of the loop of __getitem__.
GetItemStep(r) ==
    /\ rd[r].pc = "loop"
    /\ Len(rd[r].data) < Len(rd[r].idxs)
    /\ LET it == GetItemIter(rd[r], gindexer, flank, covers, oobPolicy)
       IN  /\ rd' = [rd EXCEPT ![r] = it.frame]
           /\ gindexer' = it.gindexer
    /\ UNCHANGED <<constructed, flank, stranded, covers, oobPolicy, setter, ld>>

\* The end of the loop: the (empty) transform chain, and the return.
GetItemReturn(r) ==
    /\ rd[r].pc = "loop"
    /\ Len(rd[r].data) = Len(rd[r].idxs)
    /\ rd' = [rd EXCEPT ![r].pc = "done"]
    /\ UNCHANGED <<constructed, flank, stranded, covers, gindexer, oobPolicy,
                   setter, ld>>

\* len(dataset)
LenCall(r) ==
    /\ constructed
    /\ rd[r].pc = "idle"
    /\ rd' = [rd EXCEPT ![r] =
                Frame("done", "len", NoArg, <<>>, <<>>, <<>>, <<>>, "none", TRUE,
                      <<DatasetLen(gindexer)>>)]
    /\ UNCHANGED <<constructed, flank, stranded, covers, gindexer, oobPolicy,
                   setter, ld>>

\* dataset.shape
ShapeCall(r) ==
    /\ constructed
    /\ rd[r].pc = "idle"
    /\ rd' = [rd EXCEPT ![r] =
                Frame("done", "shape", NoArg, <<>>, <<>>, <<>>, <<>>, "none", TRUE,
                      Shape(gindexer, flank, stranded, covers))]
    /\ UNCHANGED <<constructed, flank, stranded, covers, gindexer, oobPolicy,
                   setter, ld>>

\* The caller is done with the batch, the value or the exception of its call.
Release(r) ==
    /\ rd[r].pc \in {"done", "raised"}
    /\ rd' = [rd EXCEPT ![r] = IdleFrame]
    /\ UNCHANGED <<constructed, flank, stranded, covers, gindexer, oobPolicy,
                   setter, ld>>

Next ==
    \/ \E value \in FlankValues : Construct(value)
    \/ \E value \in FlankValues : SetFlank(value)
    \/ \E a \in Args : GetItem("r1", a)
    \/ GetItemStep("r1")
    \/ GetItemReturn("r1")
    \/ LenCall("r1")
    \/ ShapeCall("r1")
    \/ Release("r1")

Spec == Init /\ [][Next]_vars

\* Several readers (parallel data-loading workers) over one constructed
\* dataset and store; each step of each reader may interleave with the others'.
InitShared ==
    /\ constructed = TRUE
    /\ flank \in [kind : {"int"}, v : {0, MaxFlank}]
    /\ covers \in {MakeStore(ReadGenome, sd, MaxCond, "pattern") : sd \in BOOLEAN}
    /\ stranded = covers.stranded
    /\ gindexer = MakeIndexer(MaxBinsize)
    /\ oobPolicy \in {"pad", "raise"}
    /\ setter = [arg |-> flank, exc |-> "none"]
    /\ rd = [r \in Readers |-> IdleFrame]
    /\ ld = NoLoader

NextShared ==
    \E r \in Readers :
        \/ \E a \in SharedArgs : GetItem(r, a)
        \/ GetItemStep(r)
        \/ GetItemReturn(r)
        \/ LenCall(r)
        \/ ShapeCall(r)
        \/ Release(r)

SpecShared == InitShared /\ [][NextShared]_vars

(***************************************************************************)
(* The alignment-count loader: create_from_bam and bam_loader.             *)
(***************************************************************************)
MaxRecords == 1     \* alignment records read during one load, all files together
BamLen == 2         \* length of chr1 of the loader's genome; chr2 has one base

BamChroms == <<"chr1", "chr2">>      \* the order of `for chrom in genomesize`
BamGenome == [ch \in {"chr1", "chr2"} |-> IF ch = "chr1" THEN BamLen ELSE 1]
MapQs == {0, 2}
MinMapQs == {None, Some(0), Some(2)}

\* The alignment records (pysam.AlignedSegment) on a chromosome of length
\* len: reference_end is None or one past the last aligned base.
Records(len) ==
    {[mapq |-> q, is_reverse |-> FALSE, reference_start |-> b,
      reference_end |-> Some(b + 1)] : q \in MapQs, b \in 0..(len - 1)}
    \cup
    {r \in [mapq : MapQs, is_reverse : {TRUE}, reference_start : 0..(len - 1),
            reference_end : {None} \cup {Some(x) : x \in 1..len}] :
       r.reference_end = None \/ Val(r.reference_end) > r.reference_start}

\* Lines 117-118: if not min_mapq: min_mapq = 0
BamMinMapq(m) == IF Truthy(m) THEN Val(m) ELSE 0

\* The row of `array` a reverse record counts at, with reference_end itself.
BamPositionAtEnd(aln) ==
    IF aln.is_reverse
    THEN IF Truthy(aln.reference_end)
         THEN Val(aln.reference_end) ELSE aln.reference_start
    ELSE aln.reference_start

\* Lines 144-148: the row of `array` a record counts at.
BamPosition(aln) ==
    IF aln.is_reverse
    THEN IF Truthy(aln.reference_end)
         THEN Val(aln.reference_end) - 1 ELSE aln.reference_start
    ELSE aln.reference_start

\* Lines 141-148: the array after one record.
BamCount(array, aln, min_mapq) ==
    IF aln.mapq < min_mapq
    THEN array
    ELSE [array EXCEPT ![BamPosition(aln)][IF aln.is_reverse THEN 1 ELSE 0] = @ + 1]

\* np.zeros((genomesize[chrom], 2))
BamZeros(len) == [p \in 0..(len - 1) |-> [col \in 0..1 |-> 0]]

\* cover[interval, cond] = values: the cells of one strand and one condition
\* over [interval.start, interval.end) take the values.
StoreWrite(st, iv, cond, values) ==
    LET s == IF iv.strand = "-" /\ st.stranded THEN 1 ELSE 0
    IN  [st EXCEPT !.arr[iv.chrom][s] =
            [p \in DOMAIN @ |->
               IF p \in iv.start..(iv.end - 1)
               THEN [@[p] EXCEPT ![cond] = values[p - iv.start]]
               ELSE @[p]]]

\* The writes of lines 150-153 with the reverse strand's left out.
BamWritesForwardOnly(st, log, chrom, i, array) ==
    LET plus == Interval(chrom, 0, st.genome[chrom], "+")
    IN  [covers |-> StoreWrite(st, plus, i,
                               [p \in DOMAIN array |-> array[p][0]]),
         writes |-> Append(log, [iv |-> plus, cond |-> i])]

\* Lines 150-153: the two full-length writes of a chromosome, and the log of
\* the writes made.
BamWrites(st, log, chrom, i, array) ==
    LET plus == Interval(chrom, 0, st.genome[chrom], "+")
        minus == Interval(chrom, 0, st.genome[chrom], "-")
        st1 == StoreWrite(st, plus, i, [p \in DOMAIN array |-> array[p][0]])
        st2 == StoreWrite(st1, minus, i, [p \in DOMAIN array |-> array[p][1]])
    IN  [covers |-> st2,
         writes |-> log \o <<[iv |-> plus, cond |-> i], [iv |-> minus, cond |-> i]>>]

\* The contigs of n files: every file holds every chromosome, or one file
\* lacks one of them.
BamContigs(n) ==
    {[i \in 0..(n - 1) |-> DOMAIN BamGenome]}
    \cup {[i \in 0..(n - 1) |-> IF i = j THEN DOMAIN BamGenome \ {ch}
                                          ELSE DOMAIN BamGenome] :
            j \in 0..(n - 1), ch \in DOMAIN BamGenome}

\* create_from_bam has built the zero-filled stranded store and calls
\* bam_loader(cover, bamfiles); each file holds some of the contigs.
InitBam ==
    /\ constructed = FALSE
    /\ flank = PyNone
    /\ stranded = FALSE
    /\ \E n \in 1..MaxCond :
         /\ covers = MakeStore(BamGenome, TRUE, n, "zero")
         /\ \E cs \in BamContigs(n), m \in MinMapQs :
              ld = [pc |-> "start", nfiles |-> n, contigs |-> cs,
                    min_mapq |-> BamMinMapq(m), given_mapq |-> m,
                    i |-> 0, ci |-> 1, array |-> BamZeros(0), nfed |-> 0,
                    fed |-> [j \in 0..(n - 1) |->
                               [ch \in DOMAIN BamGenome |-> <<>>]],
                    writes |-> <<>>]
    /\ gindexer = MakeIndexer(1)
    /\ oobPolicy = "pad"
    /\ setter = NoSetter
    /\ rd = [r \in Readers |-> IdleFrame]

\* Lines 128-131: the next sample file is opened: the first one, or the one
\* after the file whose chromosomes are exhausted.
BamOpen ==
    LET i == IF ld.pc = "start" THEN 0 ELSE ld.i + 1
    IN  /\ ld.pc = "start" \/ (ld.pc = "chrom" /\ ld.ci > Len(BamChroms))
        /\ i < ld.nfiles
        /\ ld' = [ld EXCEPT !.pc = "chrom", !.i = i, !.ci = 1]
    /\ UNCHANGED <<constructed, flank, stranded, covers, gindexer, oobPolicy,
                   setter, rd>>

\* Lines 131-139: the next chromosome: the zero array, and fetch(chrom), which
\* raises ValueError for a contig the file does not hold (`continue`).
BamFetch ==
    /\ ld.pc = "chrom"
    /\ ld.ci <= Len(BamChroms)
    /\ LET chrom == BamChroms[ld.ci]
       IN  IF chrom \in ld.contigs[ld.i]
           THEN ld' = [ld EXCEPT !.pc = "records",
                                 !.array = BamZeros(BamGenome[chrom])]
           ELSE ld' = [ld EXCEPT !.ci = @ + 1,
                                 !.array = BamZeros(BamGenome[chrom])]
    /\ UNCHANGED <<constructed, flank, stranded, covers, gindexer, oobPolicy,
                   setter, rd>>

\* Lines 140-148: the iterator yields one more record.
BamRecord(aln) ==
    /\ ld.pc = "records"
    /\ ld.nfed < MaxRecords
    /\ aln \in Records(BamGenome[BamChroms[ld.ci]])
    /\ ld' = [ld EXCEPT !.array = BamCount(@, aln, ld.min_mapq),
                        !.nfed = @ + 1,
                        !.fed[ld.i][BamChroms[ld.ci]] = Append(@, aln)]
    /\ UNCHANGED <<constructed, flank, stranded, covers, gindexer, oobPolicy,
                   setter, rd>>

\* Lines 150-153: the iterator is exhausted; the chromosome is written.
BamWrite ==
    /\ ld.pc = "records"
    /\ LET w == BamWrites(covers, ld.writes, BamChroms[ld.ci], ld.i, ld.array)
       IN  /\ covers' = w.covers
           /\ ld' = [ld EXCEPT !.pc = "chrom", !.ci = @ + 1, !.writes = w.writes]
    /\ UNCHANGED <<constructed, flank, stranded, gindexer, oobPolicy, setter, rd>>

\* Line 155: return cover
BamReturn ==
    /\ ld.pc = "chrom"
    /\ ld.ci > Len(BamChroms)
    /\ ld.i + 1 = ld.nfiles
    /\ ld' = [ld EXCEPT !.pc = "done"]
    /\ UNCHANGED <<constructed, flank, stranded, covers, gindexer, oobPolicy,
                   setter, rd>>

NextBam ==
    \/ BamOpen
    \/ BamFetch
    \/ \E aln \in Records(BamLen) : BamRecord(aln)
    \/ BamWrite
    \/ BamReturn

SpecBam == InitBam /\ [][NextBam]_vars

(***************************************************************************)
(* The signal-sum loader: create_from_bigwig and bigwig_loader.            *)
(***************************************************************************)
MaxSignal == 2      \* signal values 0..MaxSignal

BwLen == MaxBinsize + 1      \* length of chr1 of the signal tracks
BwGenome == [ch \in {"chr1"} |-> BwLen]

\* GenomicIndexer.create_from_file over chr1 with stepsize 1: interval k is
\* [k-1, k-1+binsize), on the strands '+', '-', '.' in turn.
MakeBwIndexer(binsize) ==
    [binsize |-> binsize,
     ivs |-> [k \in 1..(BwLen - binsize + 1) |->
                Interval("chr1", k - 1, k - 1 + binsize, Strands[((k - 1) % 3) + 1])]]

\* The tracks of n files: the first is any track, the others differ from it.
BwTracks(base, n) ==
    [i \in 0..(n - 1) |->
       [p \in 0..(BwLen - 1) |-> (base[p] + i * (p + 1)) % (MaxSignal + 1)]]

\* bwfile.values(chrom, start, end): the track over [start, end).
BwValues(track, start, end) == [k \in 1..(end - start) |-> track[start + k - 1]]

\* np.sum of a sequence.
RECURSIVE NpSum(_)
NpSum(q) == IF q = <<>> THEN 0 ELSE Head(q) + NpSum(Tail(q))

\* interval.start_as_pos: the one-base position at the interval's start.
StartAsPos(interval) ==
    Interval(interval.chrom, interval.start, interval.start + 1, interval.strand)

\* The sum of lines 232-234 taken over [start, end - 1).
BwRegionSumShort(track, interval) ==
    NpSum(BwValues(track, interval.start, interval.end - 1))

\* Lines 232-234: np.sum(bwfile.values(chrom, int(start), int(end)))
BwRegionSum(track, interval) ==
    NpSum(BwValues(track, interval.start, interval.end))

\* Lines 230-234: the write of region j of sample i, and the log of writes.
BwRegionWrite(st, log, track, interval, i) ==
    LET total == BwRegionSum(track, interval)
        pos == StartAsPos(interval)
    IN  [covers |-> StoreWrite(st, pos, i, [k \in {0} |-> total]),
         writes |-> Append(log, [iv |-> pos, cond |-> i, value |-> total])]

\* create_from_bigwig has built the indexer and the zero-filled unstranded
\* store and calls bigwig_loader(cover, bigwigfiles, gindexer).
InitBigwig ==
    /\ constructed = FALSE
    /\ flank = PyNone
    /\ stranded = FALSE
    /\ gindexer \in {MakeBwIndexer(b) : b \in 1..MaxBinsize}
    /\ \E n \in 1..MaxCond, base \in [0..(BwLen - 1) -> 0..MaxSignal] :
         /\ covers = MakeStore(BwGenome, FALSE, n, "zero")
         /\ ld = [pc |-> "file", nfiles |-> n, tracks |-> BwTracks(base, n),
                  i |-> 0, j |-> 0, writes |-> <<>>]
    /\ oobPolicy = "pad"
    /\ setter = NoSetter
    /\ rd = [r \in Readers |-> IdleFrame]

\* Lines 226-227: the next sample file is opened.
BwOpen ==
    /\ ld.pc = "file"
    /\ ld.i < ld.nfiles
    /\ ld' = [ld EXCEPT !.pc = "regions", !.j = 0]
    /\ UNCHANGED <<constructed, flank, stranded, covers, gindexer, oobPolicy,
                   setter, rd>>

\* Lines 229-234: the next region of the indexer.
BwRegion ==
    /\ ld.pc = "regions"
    /\ ld.j < DatasetLen(gindexer)
    /\ LET w == BwRegionWrite(covers, ld.writes, ld.tracks[ld.i],
                              gindexer.ivs[ld.j + 1], ld.i)
       IN  /\ covers' = w.covers
           /\ ld' = [ld EXCEPT !.j = @ + 1, !.writes = w.writes]
    /\ UNCHANGED <<constructed, flank, stranded, gindexer, oobPolicy, setter, rd>>

\* The regions are exhausted.
BwNextFile ==
    /\ ld.pc = "regions"
    /\ ld.j = DatasetLen(gindexer)
    /\ ld' = [ld EXCEPT !.pc = "file", !.i = @ + 1]
    /\ UNCHANGED <<constructed, flank, stranded, covers, gindexer, oobPolicy,
                   setter, rd>>

\* Line 235: return cover
BwReturn ==
    /\ ld.pc = "file"
    /\ ld.i = ld.nfiles
    /\ ld' = [ld EXCEPT !.pc = "done"]
    /\ UNCHANGED <<constructed, flank, stranded, covers, gindexer, oobPolicy,
                   setter, rd>>

NextBigwig ==
    \/ BwOpen
    \/ BwRegion
    \/ BwNextFile
    \/ BwReturn

SpecBigwig == InitBigwig /\ [][NextBigwig]_vars

(***************************************************************************)
(* Properties of the read path.                                            *)
(***************************************************************************)
GetItemFrames(pcs) ==
    {r \in Readers : rd[r].op = "getitem" /\ rd[r].pc \in pcs}
IntervalOf(r, k) == gindexer.ivs[rd[r].idxs[k] + 1]

\* The indices a slice asks for, every given bound taken as given:
\* start, start+step, ... below stop; None is 0, len(self), 1.
SliceIndices(a, n) ==
    PyRange(IF a.start = None THEN 0 ELSE Val(a.start),
            IF a.stop = None THEN n ELSE Val(a.stop),
            IF a.step = None THEN 1 ELSE Val(a.step))

\* The number of indices an accepted argument asks for.
Requested(a, n) ==
    CASE a.kind = "int" -> 1
      [] a.kind = "slice" -> Len(SliceIndices(a, n))
      [] OTHER -> Len(a.items)

\* C1: the batch returned for an integer, a slice or a sized iterable has the
\* shape (n, 2*flank + binsize, 2 if stranded else 1, num_conditions), n being
\* the number of indices requested.
C1_BatchShape ==
    \A r \in GetItemFrames({"done"}) :
        rd[r].shape = <<Requested(rd[r].arg, DatasetLen(gindexer)),
                        2 * flank.v + gindexer.binsize,
                        IF stranded THEN 2 ELSE 1,
                        covers.condition>>

\* C2: a row for an interval on strand '-' is the store's read of the padded
\* interval reversed along the position and the strand axes, the condition
\* axis kept; a row for '+' or '.' is the read itself.
C2_StrandFlip ==
    \A r \in GetItemFrames({"loop", "done"}) :
      \A k \in 1..Len(rd[r].data) :
        LET row == rd[r].data[k]
            read == StoreRead(covers, rd[r].reads[k])
            L == rd[r].reads[k].end - rd[r].reads[k].start
            S == IF covers.stranded THEN 2 ELSE 1
        IN  /\ DOMAIN row = 0..(L - 1)
            /\ \A p \in 0..(L - 1) :
                 /\ DOMAIN row[p] = 0..(S - 1)
                 /\ \A s \in 0..(S - 1) :
                      /\ DOMAIN row[p][s] = 0..(covers.condition - 1)
                      /\ \A c \in 0..(covers.condition - 1) :
                           row[p][s][c] =
                             IF IntervalOf(r, k).strand = "-"
                             THEN read[L - 1 - p][S - 1 - s][c]
                             ELSE read[p][s][c]

\* A returned batch holds a flipped row of a stranded store with two
\* conditions, read with a flank.
C2_Witness ==
    \E r \in GetItemFrames({"done"}) :
      \E k \in 1..Len(rd[r].data) :
        /\ IntervalOf(r, k).strand = "-"
        /\ covers.stranded /\ covers.condition >= 2 /\ flank.v >= 1
        /\ rd[r].data[k][0][0][0] # rd[r].data[k][0][1][0]

\* C3: a slice yields the windows of the indices start, start+step, ... below
\* stop, in order, every explicitly given bound used as given.
C3_SliceIndices ==
    \A r \in GetItemFrames({"loop", "done"}) :
        rd[r].arg.kind = "slice" =>
            rd[r].idxs = SliceIndices(rd[r].arg, DatasetLen(gindexer))

\* C4: an integer is a one-element list; every iterable of integers, sized or
\* not, is accepted and gives one row per element; any other argument raises
\* IndexError before the indexer or the store is accessed.
C4_IndexArgument ==
    \A r \in GetItemFrames({"loop", "done", "raised"}) :
      LET f == rd[r]
      IN  /\ f.arg.kind = "int" => f.pc = "raised" \/ f.idxs = <<f.arg.v>>
          /\ f.arg.kind \in {"list", "generator"} =>
               /\ f.exc \notin {"IndexError: index must be iterable",
                                "TypeError: object has no len()"}
               /\ f.pc = "done" => Len(f.data) = Len(f.arg.items)
          /\ f.arg.kind \in {"float", "NoneType"} =>
               /\ f.pc = "raised"
               /\ f.exc = "IndexError: index must be iterable"
               /\ ~f.accessed /\ f.reads = <<>>

\* C5: an assignment to flank of a value that is not an integer or is negative
\* raises and leaves the stored flank as it was; the flank of a constructed
\* dataset is a non-negative integer, and no query fails on its window length.
C5_FlankValidation ==
    /\ [](/\ setter # NoSetter =>
               (setter.exc = "Exception" <=>
                  (setter.arg.kind \notin {"int", "bool"} \/ setter.arg.v < 0))
          /\ constructed => (flank.kind \in {"int", "bool"} /\ flank.v >= 0)
          /\ \A r \in GetItemFrames({"loop", "done", "raised"}) :
               /\ rd[r].exc # "ValueError: could not broadcast"
               /\ rd[r].pc # "raised" => rd[r].shape[2] >= gindexer.binsize)
    /\ [][setter'.exc = "Exception" => flank' = flank]_vars

\* A constructed dataset has rejected a later assignment to flank.
C5_Witness ==
    /\ constructed
    /\ setter.exc = "Exception"
    /\ flank.v = 1

\* C9: the read path leaves the store and the indexer's intervals as they
\* were at construction, whatever the interleaving of the readers.
C9_ReadFrame ==
    /\ gindexer = MakeIndexer(gindexer.binsize)
    /\ covers = MakeStore(ReadGenome, covers.stranded, covers.condition, "pattern")

\* Two readers are both in the middle of a padded query of the same region.
C9_Witness ==
    /\ \A r \in Readers :
         /\ rd[r].op = "getitem" /\ rd[r].pc = "loop"
         /\ Len(rd[r].data) = 1 /\ Len(rd[r].idxs) = 2
         /\ rd[r].idxs[1] = 0
    /\ flank.v >= 1

AskedMapq == IF ld.given_mapq = None THEN 0 ELSE Val(ld.given_mapq)

\* The records of sample i on chrom that pass the filter and are forward
\* reads starting at p (strand 0), or reverse reads whose last base is p, or
\* that start at p when they have no reference_end (strand 1).
Counted(i, chrom, s, p) ==
    {k \in DOMAIN ld.fed[i][chrom] :
       LET aln == ld.fed[i][chrom][k]
       IN  /\ aln.mapq >= AskedMapq
           /\ IF s = 0
              THEN ~aln.is_reverse /\ aln.reference_start = p
              ELSE /\ aln.is_reverse
                   /\ \/ aln.reference_end # None /\ Val(aln.reference_end) - 1 = p
                      \/ aln.reference_end = None /\ aln.reference_start = p}

WritesOf(i, chrom, strand) ==
    {k \in DOMAIN ld.writes :
       ld.writes[k] = [iv |-> Interval(chrom, 0, BamGenome[chrom], strand),
                       cond |-> i]}

\* C7 as claimed: on return every declared chromosome has been written for
\* both strands and every sample, absent chromosomes included.
C7_AllChromsWritten ==
    ld.pc = "done" =>
      \A i \in 0..(ld.nfiles - 1) : \A chrom \in DOMAIN BamGenome :
        \A strand \in {"+", "-"} : Cardinality(WritesOf(i, chrom, strand)) = 1

\* C7, amended: on return every declared chromosome that the sample's file
\* holds has been written once per strand, full length, also with no record;
\* a chromosome absent from the file got no write and is still zero.
C7_PresentChromsWritten ==
    ld.pc = "done" =>
      /\ \A i \in 0..(ld.nfiles - 1) : \A chrom \in DOMAIN BamGenome :
           \A strand \in {"+", "-"} :
             IF chrom \in ld.contigs[i]
             THEN Cardinality(WritesOf(i, chrom, strand)) = 1
             ELSE /\ \A k \in DOMAIN ld.writes :
                       ~(ld.writes[k].iv.chrom = chrom /\ ld.writes[k].cond = i)
                  /\ \A s \in 0..1 : \A p \in 0..(BamGenome[chrom] - 1) :
                       covers.arr[chrom][s][p][i] = 0
      /\ \A k \in DOMAIN ld.writes :
           \E i \in 0..(ld.nfiles - 1) : \E chrom \in ld.contigs[i] :
             \E strand \in {"+", "-"} : k \in WritesOf(i, chrom, strand)

\* A load of two files has returned: one held a chromosome without records
\* and lacked the other chromosome.
C7_Witness ==
    /\ ld.pc = "done"
    /\ ld.nfiles = 2
    /\ \E i \in 0..(ld.nfiles - 1) :
         /\ ld.contigs[i] = {"chr2"}
         /\ ld.fed[i]["chr2"] = <<>>
         /\ Len(ld.writes) >= 2

(***************************************************************************)
(* Properties of the signal-sum loader.                                    *)
(***************************************************************************)
\* The track of file i summed over the positions lo, ..., hi - 1.
RECURSIVE SignalOver(_, _, _)
SignalOver(i, lo, hi) ==
    IF lo >= hi THEN 0 ELSE ld.tracks[i][lo] + SignalOver(i, lo + 1, hi)

RegionsAt(p) == {j \in DOMAIN gindexer.ivs : gindexer.ivs[j].start = p}

\* C8: the loader makes one write per sample i and region j, of the sum of
\* the signal over [start, end), at the region's anchor (chrom, start) for
\* condition i; afterwards each anchor holds that sum (a flat signal v over a
\* region of length n gives v*n) and no other position was written.
C8_SignalSums ==
    LET nreg == DatasetLen(gindexer)
    IN  /\ \A k \in DOMAIN ld.writes :
             LET i == (k - 1) \div nreg
                 region == gindexer.ivs[((k - 1) % nreg) + 1]
             IN  ld.writes[k] =
                   [iv |-> Interval(region.chrom, region.start, region.start + 1,
                                    region.strand),
                    cond |-> i,
                    value |-> SignalOver(i, region.start, region.end)]
        /\ ld.pc = "done" =>
             /\ Len(ld.writes) = ld.nfiles * nreg
             /\ \A i \in 0..(ld.nfiles - 1) : \A p \in 0..(BwLen - 1) :
                  /\ \A j \in RegionsAt(p) :
                       /\ covers.arr["chr1"][0][p][i] =
                            SignalOver(i, p, gindexer.ivs[j].end)
                       /\ \A v \in 0..MaxSignal :
                            (\A q \in p..(gindexer.ivs[j].end - 1) :
                               ld.tracks[i][q] = v)
                              => covers.arr["chr1"][0][p][i] =
                                   v * (gindexer.ivs[j].end - p)
                  /\ RegionsAt(p) = {} => covers.arr["chr1"][0][p][i] = 0

\* A load of two files has returned; the first file's signal is 2 everywhere
\* and the anchor of its first region, of length 2, holds 4.
C8_Witness ==
    /\ ld.pc = "done"
    /\ ld.nfiles = 2
    /\ gindexer.binsize = 2
    /\ \A p \in 0..(BwLen - 1) : ld.tracks[0][p] = 2
    /\ covers.arr["chr1"][0][0][0] = 4
    /\ covers.arr["chr1"][0][0][1] # 4

====
